---- MODULE Spec2Model ----
(***************************************************************************)
(* Cache-aside TCP server (src/cache_stampede/server.py).                  *)
(*                                                                         *)
(* One handler thread per connection runs handle_client: recv(1024),       *)
(* strip, handle_request (get_from_cache, on a miss expensive_operation    *)
(* and set_cache), send.  The cache dictionary is guarded by cache_lock,   *)
(* which is taken by get_from_cache and set_cache only.                    *)
(*                                                                         *)
(* Byte strings are sequences of one-character strings.  The value that    *)
(* expensive_operation builds, "expensive_result_for_<key>_<int seconds>", *)
(* is the sequence <<prefix>> \o key \o <<"_", seconds>>.                  *)
(***************************************************************************)
EXTENDS Integers, Sequences, FiniteSets, TLC

\* ------------------------------------------------------------------ bounds
\* Number of client connections the listener accepts.
NumConns == 2
\* Total number of bytes the clients send, over all connections.
MaxBytes == 8
\* The same total in the behaviours checked under fair scheduling.
MaxFairBytes == 5

\* ------------------------------------------------------- program constants
\* client_socket.recv(1024)
RecvBufSize == 1024
\* time.sleep(2)
SleepSecs == 2

Conns == 1..NumConns

NL == "\n"
SP == " "
Whitespace == {NL, SP}
\* A byte that is not valid UTF-8 (such as 0xff): decode('utf-8') raises on it.
BAD == "<ff>"

\* The byte streams a client may send over its connection.
Streams ==
    { <<"a", NL>>,
      <<"a", NL, "a", NL, "a", NL>>,
      <<"a", NL, "b", NL>>,
      <<"a", "b", NL>>,
      <<NL, "a", NL>>,
      <<BAD, NL>> }

\* Number of bytes in the streams of connections 1..n.
RECURSIVE TotalLen(_, _)
TotalLen(st, n) == IF n = 0 THEN 0 ELSE Len(st[n]) + TotalLen(st, n - 1)

\* Python's None, and the empty string (both are falsy / absent here).
None == <<>>

\* ------------------------------------------------------------ pure helpers
Min(a, b) == IF a <= b THEN a ELSE b

\* s[:n]
Take(s, n) == SubSeq(s, 1, Min(n, Len(s)))
\* s[n:]
Drop(s, n) == SubSeq(s, Min(n, Len(s)) + 1, Len(s))

RECURSIVE LStrip(_)
LStrip(s) ==
    IF s = <<>> THEN <<>>
    ELSE IF Head(s) \in Whitespace THEN LStrip(Tail(s)) ELSE s

RECURSIVE RStrip(_)
RStrip(s) ==
    IF s = <<>> THEN <<>>
    ELSE IF s[Len(s)] \in Whitespace THEN RStrip(SubSeq(s, 1, Len(s) - 1)) ELSE s

\* str.strip()
Strip(s) == RStrip(LStrip(s))

\* bytes.decode('utf-8') succeeds
Decodable(bytes) == \A i \in 1..Len(bytes) : bytes[i] # BAD

\* f"expensive_result_for_{key}_{int(time.time())}"
ResultFor(key, t) == <<"expensive_result_for_">> \o key \o <<"_", ToString(t)>>

\* The key a value produced by ResultFor was computed for.
KeyOf(value) == SubSeq(value, 2, Len(value) - 2)

\* dict lookups and updates on functions with a growing domain
Has(d, k) == k \in DOMAIN d
Put(d, k, v) == [x \in (DOMAIN d) \cup {k} |-> IF x = k THEN v ELSE d[x]]
EmptyDict == [x \in {} |-> None]

\* counters and logs keyed by cache key
CountOf(d, k) == IF k \in DOMAIN d THEN d[k] ELSE 0
LogOf(d, k) == IF k \in DOMAIN d THEN d[k] ELSE <<>>

\* ------------------------------------------------------------------- state
VARIABLES
    now,            \* int(time.time())
    cache,          \* self.cache
    cache_lock,     \* self.cache_lock is locked
    pc,             \* position of each connection's handler thread
    stream,         \* the whole byte stream the client of a connection sends
    pending,        \* bytes of the stream no recv has returned yet
    data,           \* handle_client: data, the key of handle_request
    cached_value,   \* handle_request: cached_value
    fresh_value,    \* handle_request: fresh_value
    result,         \* handle_client: result
    wake,           \* time at which the running time.sleep(2) is over
    out,            \* bytes sent back on the connection
    \* ---- history
    reqs,           \* keys handle_request was called with, per connection
    resps,          \* results sent, per connection
    startPresent,   \* key was in the cache when handle_request was called
    missCount,      \* per key: get_from_cache calls that returned None
    computeCount,   \* per key: expensive_operation invocations
    setLog,         \* per key: values passed to set_cache, in order
    hits,           \* each cache hit: <<connection, request number, key,
                    \*   number of set_cache calls for the key so far, value>>
    computed,       \* <<key, value>> of each result expensive_operation built
    closes          \* number of client_socket.close() calls, per connection

vars == <<now, cache, cache_lock, pc, stream, pending,
          data, cached_value, fresh_value, result, wake, out,
          reqs, resps, startPresent, missCount, computeCount, setLog, hits,
          computed, closes>>

clientVars == <<stream, pending>>
localVars == <<data, cached_value, fresh_value, result, wake>>
histVars == <<reqs, resps, startPresent, missCount, computeCount, setLog, hits>>
auditVars == <<computed, closes>>

\* Handler positions inside "with self.cache_lock:".
InGet == {"get_locked"}
InSet == {"set_locked"}
InLock == InGet \cup InSet

Init ==
    /\ now = 0
    /\ cache = EmptyDict
    /\ cache_lock = FALSE
    /\ pc = [c \in Conns |-> "accept"]
    /\ stream \in [Conns -> Streams]
    /\ TotalLen(stream, NumConns) <= MaxBytes
    \* the handlers run the same code, so streams are assigned in order of length
    /\ \A c \in Conns : c < NumConns => Len(stream[c]) <= Len(stream[c + 1])
    /\ pending = stream
    /\ data = [c \in Conns |-> None]
    /\ cached_value = [c \in Conns |-> None]
    /\ fresh_value = [c \in Conns |-> None]
    /\ result = [c \in Conns |-> None]
    /\ wake = [c \in Conns |-> 0]
    /\ out = [c \in Conns |-> <<>>]
    /\ reqs = [c \in Conns |-> <<>>]
    /\ resps = [c \in Conns |-> <<>>]
    /\ startPresent = [c \in Conns |-> FALSE]
    /\ missCount = EmptyDict
    /\ computeCount = EmptyDict
    /\ setLog = EmptyDict
    /\ hits = {}
    /\ computed = {}
    /\ closes = [c \in Conns |-> 0]

\* ------------------------------------------------------------------- clock
\* The wall clock advances by one second.  Only expensive_operation reads
\* the clock, and only the order and equality of the timestamps it reads
\* matter, so the clock is advanced only while some call is still asleep:
\* this keeps the clock bounded by SleepSecs times the number of calls.
Tick ==
    /\ \E c \in Conns : pc[c] = "sleep" /\ now < wake[c]
    /\ now' = now + 1
    /\ UNCHANGED <<cache, cache_lock, pc, out>>
    /\ UNCHANGED clientVars
    /\ UNCHANGED localVars
    /\ UNCHANGED histVars
    /\ UNCHANGED auditVars

\* ---------------------------------------------------------------- listener
\* start_server: accept a connection and start its handler thread.
accept(c) ==
    /\ pc[c] = "accept"
    /\ pc' = [pc EXCEPT ![c] = "recv"]
    /\ UNCHANGED <<now, cache, cache_lock, out>>
    /\ UNCHANGED clientVars
    /\ UNCHANGED localVars
    /\ UNCHANGED histVars
    /\ UNCHANGED auditVars

\* ------------------------------------------------------------ handle_client
\* Variant: the "if not data: break" test is missing; an empty data is
\* handled as a key like any other.
recv_no_break(c) ==
    /\ pc[c] = "recv"
    /\ \E n \in (IF pending[c] = <<>> THEN {0}
                 ELSE 1..Min(Len(pending[c]), RecvBufSize)) :
         LET d == Strip(Take(pending[c], n)) IN
           /\ pending' = [pending EXCEPT ![c] = Drop(@, n)]
           /\ IF ~Decodable(Take(pending[c], n))
                THEN /\ pc' = [pc EXCEPT ![c] = "except"]
                     /\ UNCHANGED <<data, reqs, startPresent>>
                ELSE /\ pc' = [pc EXCEPT ![c] = "get_acquire"]
                     /\ data' = [data EXCEPT ![c] = d]
                     /\ reqs' = [reqs EXCEPT ![c] = Append(@, d)]
                     /\ startPresent' = [startPresent EXCEPT ![c] = Has(cache, d)]
    /\ UNCHANGED <<now, cache, cache_lock, stream, cached_value, fresh_value,
                   result, wake, out, resps, missCount, computeCount, setLog, hits>>
    /\ UNCHANGED auditVars

\* data = client_socket.recv(1024).decode('utf-8').strip(); an empty data
\* leaves the loop, anything else is the key of a handle_request call.
\* recv returns the n bytes that have arrived so far (TCP delivers a line in
\* pieces or several lines at once), at most 1024, and nothing once the
\* client has sent everything and closed.  Bytes that do not decode raise
\* UnicodeDecodeError, which the except clause of handle_client catches.
recv(c) ==
    /\ pc[c] = "recv"
    /\ \E n \in (IF pending[c] = <<>> THEN {0}
                 ELSE 1..Min(Len(pending[c]), RecvBufSize)) :
         LET d == Strip(Take(pending[c], n)) IN
           /\ pending' = [pending EXCEPT ![c] = Drop(@, n)]
           /\ IF ~Decodable(Take(pending[c], n))
                THEN /\ pc' = [pc EXCEPT ![c] = "except"]
                     /\ UNCHANGED <<data, reqs, startPresent>>
                ELSE IF d = <<>>
                THEN /\ pc' = [pc EXCEPT ![c] = "close"]
                     /\ data' = [data EXCEPT ![c] = d]
                     /\ UNCHANGED <<reqs, startPresent>>
                ELSE /\ pc' = [pc EXCEPT ![c] = "get_acquire"]
                     /\ data' = [data EXCEPT ![c] = d]
                     /\ reqs' = [reqs EXCEPT ![c] = Append(@, d)]
                     /\ startPresent' = [startPresent EXCEPT ![c] = Has(cache, d)]
    /\ UNCHANGED <<now, cache, cache_lock, stream, cached_value, fresh_value,
                   result, wake, out, resps, missCount, computeCount, setLog, hits>>
    /\ UNCHANGED auditVars

\* client_socket.recv raises (the connection was reset): the except clause
\* catches it.
recv_error(c) ==
    /\ pc[c] = "recv"
    /\ pc' = [pc EXCEPT ![c] = "except"]
    /\ UNCHANGED <<now, cache, cache_lock, out>>
    /\ UNCHANGED clientVars
    /\ UNCHANGED localVars
    /\ UNCHANGED histVars
    /\ UNCHANGED auditVars

\* ----------------------------------------------------------- get_from_cache
\* Variant: get_from_cache reads the dictionary without waiting for the lock.
get_from_cache_acquire_unguarded(c) ==
    /\ pc[c] = "get_acquire"
    /\ cache_lock' = TRUE
    /\ pc' = [pc EXCEPT ![c] = "get_locked"]
    /\ UNCHANGED <<now, cache, out>>
    /\ UNCHANGED clientVars
    /\ UNCHANGED localVars
    /\ UNCHANGED histVars
    /\ UNCHANGED auditVars

\* with self.cache_lock: (enter)
get_from_cache_acquire(c) ==
    /\ pc[c] = "get_acquire"
    /\ ~cache_lock
    /\ cache_lock' = TRUE
    /\ pc' = [pc EXCEPT ![c] = "get_locked"]
    /\ UNCHANGED <<now, cache, out>>
    /\ UNCHANGED clientVars
    /\ UNCHANGED localVars
    /\ UNCHANGED histVars
    /\ UNCHANGED auditVars

\* Variant: on a miss the lock is kept (held across the recomputation).
get_from_cache_keeps_lock(c) ==
    /\ pc[c] = "get_locked"
    /\ IF Has(cache, data[c])
         THEN /\ cached_value' = [cached_value EXCEPT ![c] = cache[data[c]]]
              /\ hits' = hits \cup
                   {<<c, Len(reqs[c]), data[c], Len(LogOf(setLog, data[c])),
                      cache[data[c]]>>}
              /\ cache_lock' = FALSE
              /\ UNCHANGED missCount
         ELSE /\ cached_value' = [cached_value EXCEPT ![c] = None]
              /\ missCount' = Put(missCount, data[c], CountOf(missCount, data[c]) + 1)
              /\ UNCHANGED <<hits, cache_lock>>
    /\ pc' = [pc EXCEPT ![c] = "checked"]
    /\ UNCHANGED <<now, cache, out>>
    /\ UNCHANGED clientVars
    /\ UNCHANGED <<data, fresh_value, result, wake>>
    /\ UNCHANGED <<reqs, resps, startPresent, computeCount, setLog>>
    /\ UNCHANGED auditVars

\* Variant: a lookup of an absent key inserts an empty entry (as indexing a
\* defaultdict would).
get_from_cache_inserts(c) ==
    /\ pc[c] = "get_locked"
    /\ IF Has(cache, data[c])
         THEN /\ cached_value' = [cached_value EXCEPT ![c] = cache[data[c]]]
              /\ hits' = hits \cup
                   {<<c, Len(reqs[c]), data[c], Len(LogOf(setLog, data[c])),
                      cache[data[c]]>>}
              /\ UNCHANGED <<missCount, cache>>
         ELSE /\ cached_value' = [cached_value EXCEPT ![c] = None]
              /\ missCount' = Put(missCount, data[c], CountOf(missCount, data[c]) + 1)
              /\ cache' = Put(cache, data[c], None)
              /\ UNCHANGED hits
    /\ cache_lock' = FALSE
    /\ pc' = [pc EXCEPT ![c] = "checked"]
    /\ UNCHANGED <<now, out>>
    /\ UNCHANGED clientVars
    /\ UNCHANGED <<data, fresh_value, result, wake>>
    /\ UNCHANGED <<reqs, resps, startPresent, computeCount, setLog>>
    /\ UNCHANGED auditVars

\* if key in self.cache: return self.cache[key] else: return None; the
\* return leaves the with block and releases the lock.
get_from_cache(c) ==
    /\ pc[c] = "get_locked"
    /\ IF Has(cache, data[c])
         THEN /\ cached_value' = [cached_value EXCEPT ![c] = cache[data[c]]]
              /\ hits' = hits \cup
                   {<<c, Len(reqs[c]), data[c], Len(LogOf(setLog, data[c])),
                      cache[data[c]]>>}
              /\ UNCHANGED missCount
         ELSE /\ cached_value' = [cached_value EXCEPT ![c] = None]
              /\ missCount' = Put(missCount, data[c], CountOf(missCount, data[c]) + 1)
              /\ UNCHANGED hits
    /\ cache_lock' = FALSE
    /\ pc' = [pc EXCEPT ![c] = "checked"]
    /\ UNCHANGED <<now, cache, out>>
    /\ UNCHANGED clientVars
    /\ UNCHANGED <<data, fresh_value, result, wake>>
    /\ UNCHANGED <<reqs, resps, startPresent, computeCount, setLog>>
    /\ UNCHANGED auditVars

\* ----------------------------------------------------------- handle_request
\* Variant: a hit returns what the cache holds at the return, read again
\* without the lock, not the value the check gave.
handle_request_hit_rereads(c) ==
    /\ pc[c] = "checked"
    /\ cached_value[c] # None
    /\ result' = [result EXCEPT ![c] = cache[data[c]]]
    /\ pc' = [pc EXCEPT ![c] = "send"]
    /\ UNCHANGED <<now, cache, cache_lock, out>>
    /\ UNCHANGED clientVars
    /\ UNCHANGED <<data, cached_value, fresh_value, wake>>
    /\ UNCHANGED histVars
    /\ UNCHANGED auditVars

\* if cached_value is not None: return cached_value
handle_request_hit(c) ==
    /\ pc[c] = "checked"
    /\ cached_value[c] # None
    /\ result' = [result EXCEPT ![c] = cached_value[c]]
    /\ pc' = [pc EXCEPT ![c] = "send"]
    /\ UNCHANGED <<now, cache, cache_lock, out>>
    /\ UNCHANGED clientVars
    /\ UNCHANGED <<data, cached_value, fresh_value, wake>>
    /\ UNCHANGED histVars
    /\ UNCHANGED auditVars

\* Variant: concurrent misses are coalesced; a request that missed looks again
\* and, when another request has stored the key meanwhile, returns that value
\* without recomputing.
handle_request_miss_coalesced(c) ==
    /\ pc[c] = "checked"
    /\ cached_value[c] = None
    /\ IF Has(cache, data[c])
         THEN /\ result' = [result EXCEPT ![c] = cache[data[c]]]
              /\ pc' = [pc EXCEPT ![c] = "send"]
              /\ UNCHANGED <<computeCount, wake>>
         ELSE /\ computeCount' =
                   Put(computeCount, data[c], CountOf(computeCount, data[c]) + 1)
              /\ wake' = [wake EXCEPT ![c] = now + SleepSecs]
              /\ pc' = [pc EXCEPT ![c] = "sleep"]
              /\ UNCHANGED result
    /\ UNCHANGED <<now, cache, cache_lock, out>>
    /\ UNCHANGED clientVars
    /\ UNCHANGED <<data, cached_value, fresh_value>>
    /\ UNCHANGED <<reqs, resps, startPresent, missCount, setLog, hits>>
    /\ UNCHANGED auditVars

\* Variant: the early return on a hit is missing; every request recomputes.
handle_request_miss_always(c) ==
    /\ pc[c] = "checked"
    /\ computeCount' = Put(computeCount, data[c], CountOf(computeCount, data[c]) + 1)
    /\ wake' = [wake EXCEPT ![c] = now + SleepSecs]
    /\ pc' = [pc EXCEPT ![c] = "sleep"]
    /\ UNCHANGED <<now, cache, cache_lock, out>>
    /\ UNCHANGED clientVars
    /\ UNCHANGED <<data, cached_value, fresh_value, result>>
    /\ UNCHANGED <<reqs, resps, startPresent, missCount, setLog, hits>>
    /\ UNCHANGED auditVars

\* Cache miss: fresh_value = self.expensive_operation(key); the call starts
\* its time.sleep(2).
handle_request_miss(c) ==
    /\ pc[c] = "checked"
    /\ cached_value[c] = None
    /\ computeCount' = Put(computeCount, data[c], CountOf(computeCount, data[c]) + 1)
    /\ wake' = [wake EXCEPT ![c] = now + SleepSecs]
    /\ pc' = [pc EXCEPT ![c] = "sleep"]
    /\ UNCHANGED <<now, cache, cache_lock, out>>
    /\ UNCHANGED clientVars
    /\ UNCHANGED <<data, cached_value, fresh_value, result>>
    /\ UNCHANGED <<reqs, resps, startPresent, missCount, setLog, hits>>
    /\ UNCHANGED auditVars

\* Variant: the miss path returns the computed value without storing it.
expensive_operation_no_store(c) ==
    /\ pc[c] = "sleep"
    /\ now >= wake[c]
    /\ fresh_value' = [fresh_value EXCEPT ![c] = ResultFor(data[c], now)]
    /\ wake' = [wake EXCEPT ![c] = 0]
    /\ pc' = [pc EXCEPT ![c] = "return"]
    /\ UNCHANGED <<now, cache, cache_lock, out>>
    /\ UNCHANGED clientVars
    /\ UNCHANGED <<data, cached_value, result>>
    /\ UNCHANGED histVars
    /\ computed' = computed \cup {<<data[c], ResultFor(data[c], now)>>}
    /\ UNCHANGED closes

\* Variant: expensive_operation memoises its result in the cache itself,
\* without a set_cache call.
expensive_operation_memoising(c) ==
    /\ pc[c] = "sleep"
    /\ now >= wake[c]
    /\ fresh_value' = [fresh_value EXCEPT ![c] = ResultFor(data[c], now)]
    /\ cache' = Put(cache, data[c], ResultFor(data[c], now))
    /\ wake' = [wake EXCEPT ![c] = 0]
    /\ pc' = [pc EXCEPT ![c] = "set_acquire"]
    /\ UNCHANGED <<now, cache_lock, out>>
    /\ UNCHANGED clientVars
    /\ UNCHANGED <<data, cached_value, result>>
    /\ UNCHANGED histVars
    /\ computed' = computed \cup {<<data[c], ResultFor(data[c], now)>>}
    /\ UNCHANGED closes

\* expensive_operation, after the sleep: build and return the result.
expensive_operation(c) ==
    /\ pc[c] = "sleep"
    /\ now >= wake[c]
    /\ fresh_value' = [fresh_value EXCEPT ![c] = ResultFor(data[c], now)]
    /\ wake' = [wake EXCEPT ![c] = 0]
    /\ pc' = [pc EXCEPT ![c] = "set_acquire"]
    /\ UNCHANGED <<now, cache, cache_lock, out>>
    /\ UNCHANGED clientVars
    /\ UNCHANGED <<data, cached_value, result>>
    /\ UNCHANGED histVars
    /\ computed' = computed \cup {<<data[c], ResultFor(data[c], now)>>}
    /\ UNCHANGED closes

\* ---------------------------------------------------------------- set_cache
\* with self.cache_lock: (enter)
set_cache_acquire(c) ==
    /\ pc[c] = "set_acquire"
    /\ ~cache_lock
    /\ cache_lock' = TRUE
    /\ pc' = [pc EXCEPT ![c] = "set_locked"]
    /\ UNCHANGED <<now, cache, out>>
    /\ UNCHANGED clientVars
    /\ UNCHANGED localVars
    /\ UNCHANGED histVars
    /\ UNCHANGED auditVars

\* Variant: the store replaces the whole map by one holding only the new entry.
set_cache_replaces_map(c) ==
    /\ pc[c] = "set_locked"
    /\ cache' = [x \in {data[c]} |-> fresh_value[c]]
    /\ setLog' = Put(setLog, data[c], Append(LogOf(setLog, data[c]), fresh_value[c]))
    /\ cache_lock' = FALSE
    /\ pc' = [pc EXCEPT ![c] = "return"]
    /\ UNCHANGED <<now, out>>
    /\ UNCHANGED clientVars
    /\ UNCHANGED localVars
    /\ UNCHANGED <<reqs, resps, startPresent, missCount, computeCount, hits>>
    /\ UNCHANGED auditVars

\* Variant: the key is read from a field shared by all handlers, so the value
\* can land under the key of another connection's request.
set_cache_shared_key(c) ==
    /\ pc[c] = "set_locked"
    /\ \E d \in Conns :
         /\ data[d] # None
         /\ cache' = Put(cache, data[d], fresh_value[c])
         /\ setLog' = Put(setLog, data[d], Append(LogOf(setLog, data[d]), fresh_value[c]))
    /\ cache_lock' = FALSE
    /\ pc' = [pc EXCEPT ![c] = "return"]
    /\ UNCHANGED <<now, out>>
    /\ UNCHANGED clientVars
    /\ UNCHANGED localVars
    /\ UNCHANGED <<reqs, resps, startPresent, missCount, computeCount, hits>>
    /\ UNCHANGED auditVars

\* Variant: the store builds the value again with the time of the store,
\* instead of storing the value it was given.
set_cache_restamps(c) ==
    /\ pc[c] = "set_locked"
    /\ cache' = Put(cache, data[c], ResultFor(data[c], now))
    /\ setLog' = Put(setLog, data[c], Append(LogOf(setLog, data[c]), ResultFor(data[c], now)))
    /\ cache_lock' = FALSE
    /\ pc' = [pc EXCEPT ![c] = "return"]
    /\ UNCHANGED <<now, out>>
    /\ UNCHANGED clientVars
    /\ UNCHANGED localVars
    /\ UNCHANGED <<reqs, resps, startPresent, missCount, computeCount, hits>>
    /\ UNCHANGED auditVars

\* Variant: the first value stored for a key is kept (setdefault).
set_cache_if_absent(c) ==
    /\ pc[c] = "set_locked"
    /\ cache' = IF Has(cache, data[c]) THEN cache
                ELSE Put(cache, data[c], fresh_value[c])
    /\ setLog' = Put(setLog, data[c], Append(LogOf(setLog, data[c]), fresh_value[c]))
    /\ cache_lock' = FALSE
    /\ pc' = [pc EXCEPT ![c] = "return"]
    /\ UNCHANGED <<now, out>>
    /\ UNCHANGED clientVars
    /\ UNCHANGED localVars
    /\ UNCHANGED <<reqs, resps, startPresent, missCount, computeCount, hits>>
    /\ UNCHANGED auditVars

\* self.cache[key] = value; the end of the with block releases the lock.
set_cache(c) ==
    /\ pc[c] = "set_locked"
    /\ cache' = Put(cache, data[c], fresh_value[c])
    /\ setLog' = Put(setLog, data[c], Append(LogOf(setLog, data[c]), fresh_value[c]))
    /\ cache_lock' = FALSE
    /\ pc' = [pc EXCEPT ![c] = "return"]
    /\ UNCHANGED <<now, out>>
    /\ UNCHANGED clientVars
    /\ UNCHANGED localVars
    /\ UNCHANGED <<reqs, resps, startPresent, missCount, computeCount, hits>>
    /\ UNCHANGED auditVars

\* Variant: the miss path returns what the cache holds now, not fresh_value.
handle_request_return_cached(c) ==
    /\ pc[c] = "return"
    /\ result' = [result EXCEPT ![c] = cache[data[c]]]
    /\ pc' = [pc EXCEPT ![c] = "send"]
    /\ UNCHANGED <<now, cache, cache_lock, out>>
    /\ UNCHANGED clientVars
    /\ UNCHANGED <<data, cached_value, fresh_value, wake>>
    /\ UNCHANGED histVars
    /\ UNCHANGED auditVars

\* return fresh_value
handle_request_return(c) ==
    /\ pc[c] = "return"
    /\ result' = [result EXCEPT ![c] = fresh_value[c]]
    /\ pc' = [pc EXCEPT ![c] = "send"]
    /\ UNCHANGED <<now, cache, cache_lock, out>>
    /\ UNCHANGED clientVars
    /\ UNCHANGED <<data, cached_value, fresh_value, wake>>
    /\ UNCHANGED histVars
    /\ UNCHANGED auditVars

\* ------------------------------------------------------------ handle_client
\* Variant: a cache hit is not answered; the loop goes on to the next recv.
send_only_misses(c) ==
    /\ pc[c] = "send"
    /\ IF cached_value[c] # None
         THEN UNCHANGED <<out, resps>>
         ELSE /\ out' = [out EXCEPT ![c] = @ \o result[c] \o <<NL>>]
              /\ resps' = [resps EXCEPT ![c] = Append(@, result[c])]
    /\ pc' = [pc EXCEPT ![c] = "recv"]
    /\ data' = [data EXCEPT ![c] = None]
    /\ cached_value' = [cached_value EXCEPT ![c] = None]
    /\ fresh_value' = [fresh_value EXCEPT ![c] = None]
    /\ result' = [result EXCEPT ![c] = None]
    /\ startPresent' = [startPresent EXCEPT ![c] = FALSE]
    /\ UNCHANGED <<now, cache, cache_lock, wake>>
    /\ UNCHANGED clientVars
    /\ UNCHANGED <<reqs, missCount, computeCount, setLog, hits>>
    /\ UNCHANGED auditVars

\* response = f"{result}\n"; client_socket.send(response.encode('utf-8'))
send(c) ==
    /\ pc[c] = "send"
    /\ out' = [out EXCEPT ![c] = @ \o result[c] \o <<NL>>]
    /\ resps' = [resps EXCEPT ![c] = Append(@, result[c])]
    /\ pc' = [pc EXCEPT ![c] = "recv"]
    \* the iteration's locals are dead from here on
    /\ data' = [data EXCEPT ![c] = None]
    /\ cached_value' = [cached_value EXCEPT ![c] = None]
    /\ fresh_value' = [fresh_value EXCEPT ![c] = None]
    /\ result' = [result EXCEPT ![c] = None]
    /\ startPresent' = [startPresent EXCEPT ![c] = FALSE]
    /\ UNCHANGED <<now, cache, cache_lock, wake>>
    /\ UNCHANGED clientVars
    /\ UNCHANGED <<reqs, missCount, computeCount, setLog, hits>>
    /\ UNCHANGED auditVars

\* client_socket.send raises (the client is gone): nothing is sent and the
\* except clause catches it.
send_error(c) ==
    /\ pc[c] = "send"
    /\ pc' = [pc EXCEPT ![c] = "except"]
    \* the iteration's locals are dead from here on
    /\ data' = [data EXCEPT ![c] = None]
    /\ cached_value' = [cached_value EXCEPT ![c] = None]
    /\ fresh_value' = [fresh_value EXCEPT ![c] = None]
    /\ result' = [result EXCEPT ![c] = None]
    /\ startPresent' = [startPresent EXCEPT ![c] = FALSE]
    /\ UNCHANGED <<now, cache, cache_lock, wake, out>>
    /\ UNCHANGED clientVars
    /\ UNCHANGED <<reqs, resps, missCount, computeCount, setLog, hits>>
    /\ UNCHANGED auditVars

\* Variant: the exception is not contained; it takes the whole process down,
\* all other handlers and the accept loop included.
handle_client_except_exits(c) ==
    /\ pc[c] = "except"
    /\ pc' = [d \in Conns |-> "done"]
    /\ cache_lock' = FALSE
    /\ UNCHANGED <<now, cache, out>>
    /\ UNCHANGED clientVars
    /\ UNCHANGED localVars
    /\ UNCHANGED histVars
    /\ UNCHANGED auditVars

\* except Exception as e: print(...); control goes on to the finally clause.
handle_client_except(c) ==
    /\ pc[c] = "except"
    /\ pc' = [pc EXCEPT ![c] = "close"]
    /\ UNCHANGED <<now, cache, cache_lock, out>>
    /\ UNCHANGED clientVars
    /\ UNCHANGED localVars
    /\ UNCHANGED histVars
    /\ UNCHANGED auditVars

\* finally: client_socket.close()
close(c) ==
    /\ pc[c] = "close"
    /\ pc' = [pc EXCEPT ![c] = "done"]
    /\ UNCHANGED <<now, cache, cache_lock, out>>
    /\ UNCHANGED clientVars
    /\ UNCHANGED localVars
    /\ UNCHANGED histVars
    /\ closes' = [closes EXCEPT ![c] = @ + 1]
    /\ UNCHANGED computed

\* -------------------------------------------------------------------- spec
Next ==
    \/ Tick
    \/ \E c \in Conns : accept(c)
    \/ \E c \in Conns : recv(c)
    \/ \E c \in Conns : recv_error(c)
    \/ \E c \in Conns : get_from_cache_acquire(c)
    \/ \E c \in Conns : get_from_cache(c)
    \/ \E c \in Conns : handle_request_hit(c)
    \/ \E c \in Conns : handle_request_miss(c)
    \/ \E c \in Conns : expensive_operation(c)
    \/ \E c \in Conns : set_cache_acquire(c)
    \/ \E c \in Conns : set_cache(c)
    \/ \E c \in Conns : handle_request_return(c)
    \/ \E c \in Conns : send(c)
    \/ \E c \in Conns : send_error(c)
    \/ \E c \in Conns : handle_client_except(c)
    \/ \E c \in Conns : close(c)

Spec == Init /\ [][Next]_vars

\* The steps of the handler thread of connection c (and of the accept loop
\* for it).
Handler(c) ==
    \/ accept(c)
    \/ recv(c)
    \/ recv_error(c)
    \/ get_from_cache_acquire(c)
    \/ get_from_cache(c)
    \/ handle_request_hit(c)
    \/ handle_request_miss(c)
    \/ expensive_operation(c)
    \/ set_cache_acquire(c)
    \/ set_cache(c)
    \/ handle_request_return(c)
    \/ send(c)
    \/ send_error(c)
    \/ handle_client_except(c)
    \/ close(c)

\* Fair scheduling: time passes, and a thread that can take a step is
\* eventually scheduled.
FairInit == Init /\ TotalLen(stream, NumConns) <= MaxFairBytes

FairSpec ==
    /\ FairInit
    /\ [][Next]_vars
    /\ WF_vars(Tick)
    /\ \A c \in Conns : WF_vars(Handler(c))

\* ---------------------------------------------------- derived predicates
\* Positions of a handler inside a handle_request call.
InRequest == {"get_acquire", "get_locked", "checked", "sleep",
              "set_acquire", "set_locked", "return"}

\* Connection c is on the miss path of a request for key k and has not yet
\* completed its set_cache.
MissInFlight(c, k) ==
    /\ data[c] = k
    /\ \/ pc[c] = "checked" /\ cached_value[c] = None
       \/ pc[c] \in {"sleep", "set_acquire", "set_locked"}

\* The elements of a sequence.
Range(s) == {s[i] : i \in 1..Len(s)}

\* ================================================================== claims

\* C1 (stampede): when N >= 2 requests for the same key have all found it
\* absent at their cache check (which can only happen when every one of them
\* checks before any of them stores), then once all of them have stored,
\* expensive_operation has been invoked exactly N times for the key and
\* set_cache has been called exactly N times for it; and while they are in
\* flight neither count exceeds N.
C1_Stampede ==
    \A k \in DOMAIN missCount :
        /\ CountOf(computeCount, k) <= missCount[k]
        /\ Len(LogOf(setLog, k)) <= CountOf(computeCount, k)
        /\ (missCount[k] >= 2 /\ ~(\E c \in Conns : MissInFlight(c, k)))
             => /\ CountOf(computeCount, k) = missCount[k]
                /\ Len(LogOf(setLog, k)) = missCount[k]

\* Two requests missed on the same key, both recomputed and both stored.
C1_Witness ==
    \E k \in DOMAIN missCount :
        /\ missCount[k] >= 2
        /\ ~(\E c \in Conns : MissInFlight(c, k))
        /\ CountOf(computeCount, k) = missCount[k]
        /\ Len(LogOf(setLog, k)) = missCount[k]

\* C2 (narrow locking): cache_lock is held only while some handler is inside
\* the with block of get_from_cache or set_cache; in particular whenever no
\* handler is inside such a block (all are recomputing, between check and
\* store, or elsewhere) the lock is free for any other handler to take.
C2_LockOnlyInsideGetSet ==
    cache_lock => (\E c \in Conns : pc[c] \in InLock)

\* One handler sleeps in expensive_operation while another is inside a get or
\* a set, holding the lock.
C2_Witness ==
    \E c1, c2 \in Conns :
        /\ pc[c1] = "sleep"
        /\ pc[c2] \in InLock
        /\ cache_lock

\* C3 (last write wins): at every moment the value stored under a key is the
\* value of the most recent set_cache call for that key; so when v1 is stored
\* before v2, v2 is what the cache holds after both.
C3_LastWriteWins ==
    /\ DOMAIN cache = DOMAIN setLog
    /\ \A k \in DOMAIN setLog : cache[k] = setLog[k][Len(setLog[k])]

\* Two different values were stored for one key, and the second is the one
\* that the cache holds.
C3_Witness ==
    \E k \in DOMAIN setLog :
        /\ Len(setLog[k]) = 2
        /\ setLog[k][1] # setLog[k][2]
        /\ Has(cache, k)
        /\ cache[k] = setLog[k][2]

\* C4 (hit short-circuits): a request whose key was in the cache when
\* handle_request was called never enters expensive_operation or set_cache;
\* its check yields a value that was stored for that key, and that value is
\* what it returns.
C4_HitShortCircuits ==
    \A c \in Conns :
        (startPresent[c] /\ pc[c] \in InRequest \cup {"send"}) =>
            /\ pc[c] \in {"get_acquire", "get_locked", "checked", "send"}
            /\ pc[c] \in {"checked", "send"} =>
                 /\ cached_value[c] # None
                 /\ cached_value[c] \in Range(LogOf(setLog, data[c]))
                 /\ \E h \in hits : /\ h[1] = c
                                    /\ h[2] = Len(reqs[c])
                                    /\ h[3] = data[c]
                                    /\ h[5] = cached_value[c]
            /\ pc[c] = "send" => result[c] = cached_value[c]

\* A request for a key that was present when it started is about to send its
\* result, while another request for the same key is still recomputing.
C4_Witness ==
    \E c, d \in Conns :
        /\ startPresent[c]
        /\ pc[c] = "send"
        /\ result[c] # None
        /\ pc[d] = "sleep"
        /\ data[d] = data[c]

\* C5 (miss populates): a request whose check found the key absent returns
\* the value its own expensive_operation call produced, and when it returns
\* the key is in the cache; the key of every request that has been answered
\* is in the cache ever after.
C5_MissPopulates ==
    \A c \in Conns :
        /\ (pc[c] = "send" /\ cached_value[c] = None) =>
              /\ fresh_value[c] # None
              /\ result[c] = fresh_value[c]
              /\ KeyOf(result[c]) = data[c]
              /\ Has(cache, data[c])
        /\ \A i \in 1..Len(resps[c]) : Has(cache, reqs[c][i])

\* A request on the miss path returns its own value although the cache now
\* holds a different value for the key.
C5_Witness ==
    \E c \in Conns :
        /\ pc[c] = "send"
        /\ cached_value[c] = None
        /\ result[c] = fresh_value[c]
        /\ Has(cache, data[c])
        /\ cache[data[c]] # result[c]
\* C6, as stated (idempotent hit path, values): once a key is in the cache,
\* any two requests for it that hit the cache return the same value, in
\* every reachable state, also while other requests for the key are still in
\* flight.
C6_HitsIdentical ==
    \A h1, h2 \in hits : h1[3] = h2[3] => h1[5] = h2[5]

\* C6, amended: any two requests for a key that hit the cache with no
\* set_cache call for that key between their two checks return the same
\* value.
C6_HitsIdenticalBetweenStores ==
    \A h1, h2 \in hits : (h1[3] = h2[3] /\ h1[4] = h2[4]) => h1[5] = h2[5]

\* Two different requests hit the cache for the same key with no store in
\* between, and read the same value.
C6_Witness ==
    \E h1, h2 \in hits :
        /\ <<h1[1], h1[2]>> # <<h2[1], h2[2]>>
        /\ h1[3] = h2[3]
        /\ h1[4] = h2[4]
        /\ h1[5] = h2[5]

\* C7 (no side effect on the hit path): every step that changes the cache
\* map is the store of set_cache made by a request on the miss path, and it
\* writes that request's key only; a get_from_cache step (hit or miss) and
\* the return of a hit leave the map as it is.
C7_OnlySetCacheWrites ==
    [][ /\ (cache' # cache) =>
            \E c \in Conns :
                /\ pc[c] = "set_locked" /\ pc'[c] = "return"
                /\ cached_value[c] = None
                /\ cache' = Put(cache, data[c], fresh_value[c])
        /\ \A c \in Conns :
               (pc[c] \in {"get_acquire", "get_locked", "checked"}
                  /\ pc'[c] \in {"get_locked", "checked", "send"}
                  /\ pc'[c] # pc[c])
               => cache' = cache
      ]_vars

\* A request that hit the cache has returned, and the cache still holds the
\* value it read.
C7_Witness ==
    \E c \in Conns :
        /\ pc[c] = "send"
        /\ cached_value[c] # None
        /\ cache[data[c]] = cached_value[c]

\* C8 (individual atomicity): at most one handler is inside the with block
\* of get_from_cache or set_cache, the lock is held whenever one is, and the
\* cache map is written, and read into cached_value, only by a step of a
\* handler that is inside such a block.
C8_Atomicity ==
    /\ [](Cardinality({c \in Conns : pc[c] \in InLock}) <= 1)
    /\ []((\E c \in Conns : pc[c] \in InLock) => cache_lock)
    /\ [][ /\ (cache' # cache) =>
               \E c \in Conns : pc[c] \in InSet /\ pc'[c] # pc[c] /\ cache_lock
           /\ \A c \in Conns :
                  (cached_value'[c] # cached_value[c] /\ cached_value'[c] # None)
                  => (pc[c] \in InGet /\ cache_lock)
         ]_vars

\* One handler is inside set_cache, holding the lock, while another waits to
\* enter get_from_cache for the same key.
C8_Witness ==
    \E c1, c2 \in Conns :
        /\ pc[c1] = "set_locked"
        /\ pc[c2] = "get_acquire"
        /\ data[c1] = data[c2]
        /\ cache_lock
\* The bytes of a sequence of responses, each followed by a newline.
RECURSIVE Framed(_)
Framed(rs) == IF rs = <<>> THEN <<>> ELSE Head(rs) \o <<NL>> \o Framed(Tail(rs))

\* C9 (per-connection ordering): on every connection the handler has at
\* most one request in progress; every earlier request has been answered
\* before the next one is read, the i-th response is the result for the i-th
\* key the handler read, and the bytes sent are these responses in that
\* order, each followed by a newline, whatever the other connections do.
\* (Only the last request of a connection can stay unanswered: when its send
\* fails, the handler reads nothing more.)
C9_PerConnectionOrder ==
    \A c \in Conns :
        /\ Len(reqs[c]) \in {Len(resps[c]), Len(resps[c]) + 1}
        /\ pc[c] \in InRequest \cup {"send"} => Len(reqs[c]) = Len(resps[c]) + 1
        /\ pc[c] \in {"accept", "recv"} => Len(reqs[c]) = Len(resps[c])
        /\ \A i \in 1..Len(resps[c]) : KeyOf(resps[c][i]) = reqs[c][i]
        /\ out[c] = Framed(resps[c])

\* A connection has been answered for three keys in turn while another
\* connection has a request in progress.
C9_Witness ==
    \E c, d \in Conns :
        /\ c # d
        /\ Len(reqs[c]) = 3
        /\ Len(resps[c]) = 3
        /\ pc[d] \in InRequest

\* Position of the first newline of s, 0 when there is none.
FirstNL(s) ==
    IF \E i \in 1..Len(s) : s[i] = NL
      THEN CHOOSE i \in 1..Len(s) : s[i] = NL /\ \A j \in 1..(i - 1) : s[j] # NL
      ELSE 0

\* The trimmed non-empty newline-terminated lines of a byte stream.
RECURSIVE Lines(_)
Lines(s) ==
    IF FirstNL(s) = 0 THEN <<>>
    ELSE LET line == Strip(SubSeq(s, 1, FirstNL(s) - 1))
             rest == SubSeq(s, FirstNL(s) + 1, Len(s))
         IN (IF line = <<>> THEN <<>> ELSE <<line>>) \o Lines(rest)

\* Number of newline characters in s.
CountNL(s) == Cardinality({i \in 1..Len(s) : s[i] = NL})

\* C10 (wire framing, one key per line): when a connection's handler has
\* finished, handle_request has been called once for every non-empty
\* newline-terminated line of the client's stream, with the trimmed line as
\* its key, in order, and exactly one newline-terminated response line has
\* been sent for each, however the stream was delivered to recv.
C10_OneKeyPerLine ==
    \A c \in Conns :
        pc[c] = "done" =>
            /\ reqs[c] = Lines(stream[c])
            /\ CountNL(out[c]) = Len(Lines(stream[c]))

\* C11 (every request terminates): under fair scheduling every
\* get_from_cache and set_cache call that waits for cache_lock gets it and
\* releases it, and every started handle_request returns a value to
\* handle_client; no handler waits for the lock forever.
C11_RequestsTerminate ==
    \A c \in Conns :
        /\ (pc[c] = "get_acquire") ~> (pc[c] = "checked")
        /\ (pc[c] = "set_acquire") ~> (pc[c] = "return")
        /\ (pc[c] \in InRequest) ~> (pc[c] = "send" /\ result[c] # None)

\* A handler waits to enter set_cache while another handler holds the lock.
C11_Witness ==
    \E c, d \in Conns :
        /\ pc[c] = "set_acquire"
        /\ pc[d] \in InLock
        /\ cache_lock
\* Positions of a handler that has left its receive loop.
Leaving == {"except", "close", "done"}

\* C12 (error containment): when recv, decode or send fails on a connection,
\* the failing handler does not hold cache_lock and the cache map is exactly
\* what the set_cache calls made so far have made it; the failure and the
\* handler's way out (except clause, close) change neither the cache, nor
\* the lock, nor any other handler; and after it every other connection is
\* still accepted, served and closed.
C12_ErrorContainment ==
    /\ [](\A c \in Conns :
            pc[c] = "except" =>
              /\ cache_lock => (\E d \in Conns \ {c} : pc[d] \in InLock)
              /\ DOMAIN cache = DOMAIN setLog
              /\ \A k \in DOMAIN cache : cache[k] = setLog[k][Len(setLog[k])])
    /\ [][\A c \in Conns :
            ((pc[c] \in {"except", "close"} \/ pc'[c] = "except") /\ pc'[c] # pc[c])
              => /\ cache' = cache
                 /\ cache_lock' = cache_lock
                 /\ \A d \in Conns \ {c} :
                       /\ pc'[d] = pc[d]
                       /\ data'[d] = data[d]
                       /\ result'[d] = result[d]
                       /\ out'[d] = out[d]]_vars
    /\ \A c, d \in Conns :
          (c # d) => ((pc[c] = "except") ~> (pc[d] = "done" /\ closes[d] = 1))

\* A handler has just failed while another one is inside a get or a set on a
\* cache that already holds a value.
C12_Witness ==
    \E c, d \in Conns :
        /\ pc[c] = "except"
        /\ pc[d] \in InLock
        /\ cache_lock
        /\ DOMAIN cache # {}

\* The bytes of its client's stream that handler c has received so far.
Received(c) == Take(stream[c], Len(stream[c]) - Len(pending[c]))

\* s holds a complete line that is empty or nothing but whitespace.
HasBlankLine(s) == CountNL(s) > Len(Lines(s))

\* C13 (connection termination, as stated): once the handler has received an
\* empty or whitespace-only line it stops: it is on its way out (or has
\* closed the socket) and handles no request.
C13_StopsAtEmptyLine ==
    \A c \in Conns :
        HasBlankLine(Received(c)) => pc[c] \in Leaving

\* C13 (connection termination, by recv result): handle_request is never called with an
\* empty key; data that is empty after strip (end of stream, or nothing but
\* whitespace) and a failed recv make the handler leave its loop; a handler
\* that has left the loop starts no further request and sends nothing more;
\* the socket is closed exactly once on every way out, and never before.
C13_ConnectionTermination ==
    /\ [](\A c \in Conns :
            /\ \A i \in 1..Len(reqs[c]) : reqs[c][i] # <<>> /\ Strip(reqs[c][i]) = reqs[c][i]
            /\ closes[c] = (IF pc[c] = "done" THEN 1 ELSE 0))
    /\ [][\A c \in Conns :
            /\ (pc[c] = "recv" /\ pc'[c] # "recv") =>
                  /\ pc'[c] \in {"get_acquire", "close", "except"}
                  /\ (pc'[c] = "get_acquire") =
                       (reqs'[c] = Append(reqs[c], data'[c]) /\ data'[c] # <<>>)
                  /\ (pc'[c] # "get_acquire") => reqs'[c] = reqs[c]
            /\ (pc[c] \in Leaving) =>
                  /\ pc'[c] \in Leaving
                  /\ reqs'[c] = reqs[c]
                  /\ resps'[c] = resps[c]
                  /\ out'[c] = out[c]]_vars

\* A handler stopped on data that was nothing but whitespace, with bytes of
\* the client's stream still unread, and has closed its socket.
C13_Witness ==
    \E c \in Conns :
        /\ pc[c] = "done"
        /\ closes[c] = 1
        /\ pending[c] # <<>>
        /\ Len(reqs[c]) = Len(resps[c])
        /\ Len(reqs[c]) >= 1

\* Requests for key k that observed a miss and have not called
\* expensive_operation yet.
MissedNotComputing(k) ==
    {c \in Conns : pc[c] = "checked" /\ cached_value[c] = None /\ data[c] = k}

\* Requests for key k inside or after expensive_operation that have not
\* completed their set_cache yet.
ComputedNotStored(k) ==
    {c \in Conns : pc[c] \in {"sleep", "set_acquire", "set_locked"} /\ data[c] = k}

\* C14 (per-request state machine, as stated): in every reachable state the
\* number of expensive_operation invocations for a key equals the number of
\* cache checks that observed a miss on it, the number of set_cache calls
\* never exceeds the number of invocations, and the two are equal once no
\* request is in flight.
C14_ComputesEqualMisses ==
    \A k \in DOMAIN missCount :
        /\ CountOf(computeCount, k) = missCount[k]
        /\ Len(LogOf(setLog, k)) <= CountOf(computeCount, k)
        /\ (\A c \in Conns : pc[c] \notin InRequest)
             => Len(LogOf(setLog, k)) = CountOf(computeCount, k)

\* C14 (per-request state machine, amended): a request goes CHECK -> RETURN
\* on a hit and CHECK -> RECOMPUTE -> STORE -> RETURN on a miss and no other
\* way; the misses observed on a key are the expensive_operation invocations
\* for it plus the requests that have missed and not yet invoked it; the
\* invocations are the set_cache calls plus the requests between the
\* invocation and the end of their store; so the three numbers are equal
\* once no request is in flight.
C14_StateMachine ==
    /\ [](/\ DOMAIN computeCount \subseteq DOMAIN missCount
          /\ DOMAIN setLog \subseteq DOMAIN computeCount
          /\ \A k \in DOMAIN missCount :
               /\ missCount[k] =
                    CountOf(computeCount, k) + Cardinality(MissedNotComputing(k))
               /\ CountOf(computeCount, k) =
                    Len(LogOf(setLog, k)) + Cardinality(ComputedNotStored(k))
               /\ (\A c \in Conns : pc[c] \notin InRequest)
                    => /\ CountOf(computeCount, k) = missCount[k]
                       /\ Len(LogOf(setLog, k)) = missCount[k])
    /\ [][\A c \in Conns :
            (pc[c] \in InRequest /\ pc'[c] # pc[c]) =>
               \/ pc[c] = "get_acquire" /\ pc'[c] = "get_locked"
               \/ pc[c] = "get_locked" /\ pc'[c] = "checked"
               \/ pc[c] = "checked" /\ cached_value[c] # None /\ pc'[c] = "send"
               \/ pc[c] = "checked" /\ cached_value[c] = None /\ pc'[c] = "sleep"
               \/ pc[c] = "sleep" /\ pc'[c] = "set_acquire"
               \/ pc[c] = "set_acquire" /\ pc'[c] = "set_locked"
               \/ pc[c] = "set_locked" /\ pc'[c] = "return"
               \/ pc[c] = "return" /\ pc'[c] = "send"]_vars

\* A request has observed a miss and has not invoked expensive_operation
\* yet, while another request for the same key is already past its store.
C14_Witness ==
    \E k \in DOMAIN missCount :
        /\ MissedNotComputing(k) # {}
        /\ CountOf(computeCount, k) >= 1
        /\ Len(LogOf(setLog, k)) >= 1
        /\ missCount[k] > CountOf(computeCount, k)

\* C15 (returned value): a request that hit returns the value its own
\* get_from_cache call gave it; a request that missed returns the value its
\* own expensive_operation call built for its key, whatever the cache holds
\* for the key then; fresh_value of a request is written by nobody but that
\* request's expensive_operation.
C15_ReturnedValue ==
    /\ [](\A c \in Conns :
            pc[c] = "send" =>
              /\ result[c] # None
              /\ (cached_value[c] # None) =>
                    /\ result[c] = cached_value[c]
                    /\ fresh_value[c] = None
                    /\ \E h \in hits :
                         /\ h[1] = c /\ h[2] = Len(reqs[c]) /\ h[3] = data[c]
                         /\ h[5] = result[c]
              /\ (cached_value[c] = None) =>
                    /\ result[c] = fresh_value[c]
                    /\ <<data[c], result[c]>> \in computed
                    /\ KeyOf(result[c]) = data[c])
    /\ [][\A c \in Conns :
            (fresh_value'[c] # fresh_value[c] /\ fresh_value'[c] # None) =>
               /\ pc[c] = "sleep"
               /\ pc'[c] = "set_acquire"
               /\ fresh_value'[c] = ResultFor(data[c], now)]_vars

\* Two requests for the same key are about to be answered with different
\* values: one missed and returns its own value although the cache holds
\* another one by now, the other hit.
C15_Witness ==
    \E c, d \in Conns :
        /\ pc[c] = "send" /\ pc[d] = "send"
        /\ data[c] = data[d]
        /\ cached_value[c] = None
        /\ cached_value[d] # None
        /\ result[c] # result[d]
        /\ cache[data[c]] # result[c]

\* C16 (keys only grow): the cache starts empty; no step removes a key; a
\* request that starts when its key is present does not miss.
C16_KeysOnlyGrow ==
    /\ cache = EmptyDict
    /\ [][DOMAIN cache \subseteq DOMAIN cache']_vars
    /\ [](\A c \in Conns :
            (startPresent[c] /\ pc[c] \in InRequest \ {"get_acquire", "get_locked"})
               => cached_value[c] # None)
    /\ [](\A c \in Conns :
            (pc[c] \in {"get_acquire", "get_locked"} /\ startPresent[c])
               => Has(cache, data[c]))

\* The cache holds two keys and a request that started when its key was
\* already present has hit.
C16_Witness ==
    \E c \in Conns :
        /\ Cardinality(DOMAIN cache) >= 2
        /\ pc[c] = "checked"
        /\ startPresent[c]
        /\ cached_value[c] # None

\* C17 (eventual stability): a cache check for k made after the first
\* set_cache for k hits, so that request never stores; the value of k
\* changes only in the store of a request that missed on k before that first
\* store; and once k is present and no such request is in flight, this stays
\* so and the value of k is the same in every later state.
C17_EventualStability ==
    /\ [](\A c \in Conns :
            pc[c] \in {"sleep", "set_acquire", "set_locked"}
              => cached_value[c] = None)
    /\ [][\A c \in Conns :
            (pc[c] = "get_locked" /\ pc'[c] = "checked"
               /\ Len(LogOf(setLog, data[c])) >= 1)
              => cached_value'[c] # None]_vars
    /\ [][\A k \in DOMAIN cache :
            /\ (cache'[k] # cache[k]) => (\E c \in Conns : MissInFlight(c, k))
            /\ ~(\E c \in Conns : MissInFlight(c, k))
                 => /\ cache'[k] = cache[k]
                    /\ ~(\E c \in Conns : MissInFlight(c, k))']_vars

\* Key k has been stored twice, no request that missed on it is left, and a
\* later request for k is being served.
C17_Witness ==
    \E k \in DOMAIN cache :
        /\ Len(LogOf(setLog, k)) >= 2
        /\ ~(\E c \in Conns : MissInFlight(c, k))
        /\ \E c \in Conns : pc[c] = "checked" /\ data[c] = k /\ cached_value[c] # None

\* C18 (no cross-key contamination): the value under key k was built by an
\* expensive_operation call for k; the only step that writes an entry is the
\* store of a request, and it writes the entry of that request's own key and
\* no other.
C18_NoCrossKey ==
    /\ [](\A k \in DOMAIN cache :
            /\ <<k, cache[k]>> \in computed
            /\ KeyOf(cache[k]) = k)
    /\ [][\A c \in Conns :
            (pc[c] = "set_locked" /\ pc'[c] # pc[c]) =>
               /\ DOMAIN cache' = DOMAIN cache \cup {data[c]}
               /\ \A k \in DOMAIN cache : k # data[c] => cache'[k] = cache[k]
               /\ DOMAIN setLog' = DOMAIN setLog \cup {data[c]}
               /\ \A k \in DOMAIN setLog : k # data[c] => setLog'[k] = setLog[k]]_vars

\* A request stores under its key while the cache holds another key and
\* another request, for a different key, is waiting to store.
C18_Witness ==
    \E c, d \in Conns :
        /\ pc[c] = "set_locked"
        /\ pc[d] = "set_acquire"
        /\ data[c] # data[d]
        /\ \E k \in DOMAIN cache : k # data[c]

\* C19 (returned values were stored): the value a request is about to
\* return for key k, and every value already sent in answer to a request
\* for k, is one of the values stored under k so far, though not
\* necessarily the one stored now.
C19_ReturnedWasStored ==
    \A c \in Conns :
        /\ pc[c] = "send" => result[c] \in Range(LogOf(setLog, data[c]))
        /\ \A i \in 1..Len(resps[c]) :
              resps[c][i] \in Range(LogOf(setLog, reqs[c][i]))

\* A request that hit is about to return a value that the cache no longer
\* holds for its key.
C19_Witness ==
    \E c \in Conns :
        /\ pc[c] = "send"
        /\ cached_value[c] # None
        /\ result[c] = cached_value[c]
        /\ cache[data[c]] # result[c]
====
